---- MODULE Spec2Model ----
(***************************************************************************)
(* A model of the GitHub search-and-replace pipeline of jira_scripts:      *)
(*   src/src/search-replace-config.ts   validateConfig                     *)
(*   src/src/github-client.ts           GitHubClient                       *)
(*   src/src/github-search-replace.ts   executeSearchReplace               *)
(*                                                                         *)
(* JavaScript runs one handler at a time and yields only at an await, so   *)
(* every action below is a stretch of code with no await inside: one API   *)
(* call with its response, or the synchronous code around it.              *)
(*                                                                         *)
(* Strings the program inspects (search string, file contents, paths,      *)
(* patterns) are sequences of one-character strings, so includes, RegExp   *)
(* matching and replace are computed as JavaScript computes them.  Names   *)
(* the program only copies (repository, organization, label) are atoms.    *)
(***************************************************************************)
EXTENDS Integers, Sequences, FiniteSets, TLC

VARIABLES
    config,         \* the SearchReplaceConfig of the run
    pc,             \* the await the run is suspended at
    outcome,        \* of executeSearchReplace: "none", "returned", "threw"
    summary,        \* the ExecutionSummary
    page,           \* searchAcrossOrganizations: let page
    hasMoreResults, \* searchAcrossOrganizations: let hasMoreResults
    data,           \* the search response being processed: items, total_count
    idx,            \* position of the for-of loop in data.items
    allMatches,     \* the Map repoName -> FileMatch[], in insertion order
    repoIdx,        \* position of the for-of loop over searchResults
    pr,             \* createPullRequest: its locals between awaits
    calls,          \* history: the API calls issued, each with its outcome
    warnings,       \* history: what warn() was called with
    thrown,         \* history: the errors thrown out of the client's methods
    sent,           \* history: hits received that the filters let through
    index,          \* environment: the total_count the search index reports
    faults,         \* environment: the failed calls and stale files so far
    exitCode,       \* main: what process.exit was called with
    upstream,       \* environment: the answers of an upstream that is fixed
    firstRun        \* history: what the execution before this one returned

vars == << config, pc, outcome, summary, page, hasMoreResults, data, idx,
           allMatches, repoIdx, pr, calls, warnings, thrown, sent, index,
           faults, exitCode, upstream, firstRun >>

\* What the environment never changes, and what only it changes.
env == << config, index, upstream >>

(***************************************************************************)
(* Sequences.                                                              *)
(***************************************************************************)
Range(s) == { s[i] : i \in 1..Len(s) }

Count(s, P(_)) == Cardinality({ i \in 1..Len(s) : P(s[i]) })

Repeat(x, n) == [ i \in 1..n |-> x ]

\* Math.ceil(a / b) for a >= 0, b > 0
Ceil(a, b) == (a + b - 1) \div b

(***************************************************************************)
(* String.prototype.includes: s has sub as a contiguous subsequence.       *)
(***************************************************************************)
OccursAt(s, sub, i) ==
    /\ i + Len(sub) - 1 <= Len(s)
    /\ \A k \in 1..Len(sub) : s[i + k - 1] = sub[k]

Includes(s, sub) == \E i \in 1..(Len(s) + 1) : OccursAt(s, sub, i)

(***************************************************************************)
(* new RegExp(source): of the pattern syntax the model's alphabet has "."  *)
(* (any character) and the quantifiers "*" and "+" (the atom before it,    *)
(* any number of times or at least once, greedy); every other character    *)
(* of the alphabet stands for itself.  A quantifier with no atom before    *)
(* it is a SyntaxError ("Nothing to repeat").                              *)
(***************************************************************************)
Quantifiers == { "*", "+" }

RegExpThrows(source) ==
    \E i \in 1..Len(source) :
        source[i] \in Quantifiers
        /\ (i = 1 \/ source[i - 1] \in Quantifiers)

\* The atoms of a valid source: the character, whether it is quantified
\* and the least number of repetitions.
RECURSIVE Atoms(_)
Atoms(source) ==
    IF source = << >> THEN << >>
    ELSE IF Len(source) >= 2 /\ source[2] \in Quantifiers
         THEN << [c |-> source[1], star |-> TRUE,
                  min |-> IF source[2] = "+" THEN 1 ELSE 0] >>
              \o Atoms(SubSeq(source, 3, Len(source)))
         ELSE << [c |-> source[1], star |-> FALSE, min |-> 1] >>
              \o Atoms(Tail(source))

AtomMatches(c, ch) == c = "." \/ c = ch

RECURSIVE MaxRun(_, _, _)
MaxRun(c, s, i) ==
    IF i <= Len(s) /\ AtomMatches(c, s[i]) THEN 1 + MaxRun(c, s, i + 1) ELSE 0

\* The position after the match the backtracking matcher finds for atoms
\* k.. of A starting at position i of s; 0 when there is none.
RECURSIVE MatchEnd(_, _, _, _)
RECURSIVE StarEnd(_, _, _, _, _)
MatchEnd(A, k, s, i) ==
    IF k > Len(A) THEN i
    ELSE IF A[k].star THEN StarEnd(A, k, s, i, MaxRun(A[k].c, s, i))
    ELSE IF i <= Len(s) /\ AtomMatches(A[k].c, s[i])
         THEN MatchEnd(A, k + 1, s, i + 1)
         ELSE 0

\* Atom k repeated n times, then fewer, down to its least number.
StarEnd(A, k, s, i, n) ==
    IF n < A[k].min THEN 0
    ELSE LET e == MatchEnd(A, k + 1, s, i + n)
         IN  IF e # 0 THEN e
             ELSE IF n = 0 THEN 0
             ELSE StarEnd(A, k, s, i, n - 1)

\* RegExp.prototype.test without the g flag: a match starting anywhere.
RegExpTest(source, s) ==
    \E i \in 1..(Len(s) + 1) : MatchEnd(Atoms(source), 1, s, i) # 0

\* The first position >= pos a match starts at; 0 when there is none.
RECURSIVE NextMatch(_, _, _)
NextMatch(A, s, pos) ==
    IF pos > Len(s) + 1 THEN 0
    ELSE IF MatchEnd(A, 1, s, pos) # 0 THEN pos
    ELSE NextMatch(A, s, pos + 1)

\* (s.match(new RegExp(source, "g")) || []).length, scanning from pos: the
\* matches are leftmost, do not overlap, and an empty match advances by one.
RECURSIVE GlobalMatchCount(_, _, _)
GlobalMatchCount(A, s, pos) ==
    LET j == NextMatch(A, s, pos)
        e == MatchEnd(A, 1, s, j)
    IN  IF j = 0 THEN 0
        ELSE 1 + GlobalMatchCount(A, s, IF e = j THEN j + 1 ELSE e)

\* What replace inserts for one match when the replacement is a string:
\* "$$" stands for "$" and "$&" for the matched text; a "$" before any
\* other character of the alphabet stands for itself.
RECURSIVE Expand(_, _)
Expand(repl, matched) ==
    IF repl = << >> THEN << >>
    ELSE IF Len(repl) >= 2 /\ repl[1] = "$" /\ repl[2] = "$"
         THEN << "$" >> \o Expand(SubSeq(repl, 3, Len(repl)), matched)
    ELSE IF Len(repl) >= 2 /\ repl[1] = "$" /\ repl[2] = "&"
         THEN matched \o Expand(SubSeq(repl, 3, Len(repl)), matched)
    ELSE << Head(repl) >> \o Expand(Tail(repl), matched)

\* s.replace(new RegExp(source, "g"), repl) from pos on.
RECURSIVE GlobalReplace(_, _, _, _)
GlobalReplace(A, s, pos, repl) ==
    LET j == NextMatch(A, s, pos)
        e == MatchEnd(A, 1, s, j)
    IN  IF j = 0 THEN SubSeq(s, pos, Len(s))
        ELSE SubSeq(s, pos, j - 1) \o Expand(repl, SubSeq(s, j, e - 1)) \o
             ( IF e # j THEN GlobalReplace(A, s, e, repl)
               ELSE IF j <= Len(s)
                    THEN << s[j] >> \o GlobalReplace(A, s, j + 1, repl)
                    ELSE << >> )

(***************************************************************************)
(* The configurations a run is started with.  An optional list that is     *)
(* undefined behaves like the empty list everywhere the program reads it,  *)
(* and is modelled as << >>.                                               *)
(***************************************************************************)
SearchStrings == { << >>, << "a", ".", "b" >> }

ReplacementStrings == { << >>, << "a", ".", "b" >>, << "c" >> }

Tokens == { << >>, << "t" >> }

OrganizationLists == { << >>, << "acme" >> }

LabelLists == { << >>, << "automated" >> }

\* includeArchived, repositoryTypes, excludePatterns, includeExtensions and
\* maxReposPerOrg
Filters ==
    { [includeArchived |-> FALSE, repositoryTypes |-> << >>,
       excludePatterns |-> << >>, includeExtensions |-> << >>,
       maxReposPerOrg |-> 50],
      [includeArchived |-> TRUE,
       repositoryTypes |-> << "public", "private", "internal" >>,
       excludePatterns |-> << << "n", "/" >>, << "*", ".", "l" >> >>,
       includeExtensions |-> << << ".", "t" >> >>,
       maxReposPerOrg |-> 1] }

Configs ==
    { [githubToken |-> t, organizations |-> o, searchString |-> s,
       replacementString |-> r, includeArchived |-> f.includeArchived,
       repositoryTypes |-> f.repositoryTypes,
       excludePatterns |-> f.excludePatterns,
       includeExtensions |-> f.includeExtensions,
       maxReposPerOrg |-> f.maxReposPerOrg,
       branchPrefix |-> "automated-string-replacement",
       prLabels |-> l, dryRun |-> d] :
        t \in Tokens, o \in OrganizationLists, s \in SearchStrings,
        r \in ReplacementStrings, f \in Filters, l \in LabelLists,
        d \in BOOLEAN }

\* Mutant: validateConfig without the check of line 102.
validateConfig_SameAllowed(c) ==
    (IF c.githubToken = << >>
        THEN << "GitHub token is required" >> ELSE << >>)
    \o (IF c.organizations = << >>
        THEN << "At least one organization must be specified" >> ELSE << >>)
    \o (IF c.searchString = << >>
        THEN << "Search string is required" >> ELSE << >>)
    \o (IF c.replacementString = << >>
        THEN << "Replacement string is required" >> ELSE << >>)

(***************************************************************************)
(* validateConfig: the list of error messages, in the order of the checks. *)
(***************************************************************************)
validateConfig(c) ==
    (IF c.githubToken = << >>
        THEN << "GitHub token is required" >> ELSE << >>)
    \o (IF c.organizations = << >>
        THEN << "At least one organization must be specified" >> ELSE << >>)
    \o (IF c.searchString = << >>
        THEN << "Search string is required" >> ELSE << >>)
    \o (IF c.replacementString = << >>
        THEN << "Replacement string is required" >> ELSE << >>)
    \o (IF c.searchString = c.replacementString
        THEN << "Search and replacement strings cannot be the same" >>
        ELSE << >>)

(***************************************************************************)
(* What the code-hosting API can answer.  A repository object of a search  *)
(* hit carries its owner's login and the fields shouldProcessRepository    *)
(* reads; visibility "" is an absent field.  A blob's sha is determined by its content, so the     *)
(* model uses the content itself as the sha.                               *)
(***************************************************************************)
RepoSite ==
    [full_name |-> "acme/site", owner |-> "acme", archived |-> FALSE,
     visibility |-> "public", private |-> FALSE]

RepoApi ==
    [full_name |-> "acme/api", owner |-> "acme", archived |-> FALSE,
     visibility |-> "", private |-> TRUE]

RepoOld ==
    [full_name |-> "acme/old", owner |-> "acme", archived |-> TRUE,
     visibility |-> "", private |-> FALSE]

Hits ==
    { [repository |-> RepoSite, path |-> << "c" >>],
      [repository |-> RepoSite, path |-> << "n", "/", "c" >>],
      [repository |-> RepoApi, path |-> << "c" >>],
      [repository |-> RepoOld, path |-> << "c" >>] }

Contents ==
    { << "a", ".", "b" >>,
      << "a", "x", "b" >> }

PRNumbers == { 7 }

ServerError == [name |-> "HttpError", message |-> << "500 Server Error" >>]

\* The answer to createOrUpdateFileContents when the sha sent is not the
\* sha of the blob the branch has at that path.
ShaMismatch == [name |-> "HttpError", message |-> << "409 Conflict" >>]

\* const perPage = 100
PerPage == 100

\* while (hasMoreResults && page <= 10)
MaxPages == 10

\* How many hits the filters let through the API reports in one run; the
\* rest of a full page is hits the configured filters reject.
MaxHits == 2

\* How many calls fail, or files change between search and commit, in one
\* run.
MaxFaults == 2

EmptySummary ==
    [totalRepositories |-> 0, repositoriesWithMatches |-> 0,
     totalFilesChanged |-> 0, successfulPRs |-> 0, failedPRs |-> 0,
     prs |-> << >>, errors |-> << >>]

NoData == [items |-> << >>, total_count |-> 0]

\* No upstream is fixed: the environment answers each call as it likes.
NoUpstream == [pages |-> << >>, files |-> << >>]

\* There was no execution before this one.
NoFirstRun == [outcome |-> "none", summary |-> EmptySummary, matches |-> << >>]

NoPR == [branchName |-> << >>, defaultBranch |-> "", fileIdx |-> 0,
         branch |-> { }, number |-> 0]

\* An entry of calls: the request (api, repo, path, page, and the sha a
\* commit sends), whether it succeeded, in got the content the API
\* answered with (getContent) or held at the path (a commit), and in items
\* the number of hits it answered with (search.code).
Call(api, repo, path, pg, ok) ==
    [api |-> api, repo |-> repo, path |-> path, page |-> pg,
     per_page |-> IF api = "search.code" THEN PerPage ELSE 0, ok |-> ok,
     sha |-> << >>, got |-> << >>, items |-> 0]

(***************************************************************************)
(* GitHubClient.shouldProcessRepository.  In                               *)
(*   repo.visibility || repo.private ? "private" : "public"                *)
(* the conditional binds weaker than ||.                                   *)
(***************************************************************************)
shouldProcessRepository(c, repo) ==
    IF ~c.includeArchived /\ repo.archived THEN FALSE
    ELSE IF c.repositoryTypes # << >>
         THEN LET visibility ==
                      IF repo.visibility # "" \/ repo.private
                      THEN "private" ELSE "public"
              IN  visibility \in Range(c.repositoryTypes)
         ELSE TRUE

\* pattern.replace(/\*/g, ".*")
RECURSIVE GlobToRegExp(_)
GlobToRegExp(pattern) ==
    IF pattern = << >> THEN << >>
    ELSE (IF Head(pattern) = "*" THEN << ".", "*" >> ELSE << Head(pattern) >>)
         \o GlobToRegExp(Tail(pattern))

\* GitHubClient.shouldExcludePath
shouldExcludePath(c, path) ==
    \E k \in 1..Len(c.excludePatterns) :
        LET pattern == c.excludePatterns[k]
        IN  IF Includes(pattern, << "*" >>)
            THEN RegExpTest(GlobToRegExp(pattern), path)
            ELSE Includes(path, pattern)

\* Mutant: the path is looked at after the fetch only.
Filtered_RepositoryOnly(c, item) ==
    ~shouldProcessRepository(c, item.repository)

\* A hit the for-of loop of the search passes over without a fetch.
Filtered(c, item) ==
    \/ ~shouldProcessRepository(c, item.repository)
    \/ shouldExcludePath(c, item.path)

(***************************************************************************)
(* The pages search.code can answer with: up to MaxHits hits of any kind,  *)
(* alone (a short page) or followed by hits the filters reject up to       *)
(* PerPage items (a full page).                                            *)
(***************************************************************************)
Passing(c, items) == Count(items, LAMBDA h : ~Filtered(c, h))

Prefixes(c, budget) ==
    { p \in UNION { [1..k -> Hits] : k \in 0..MaxHits } :
        Passing(c, p) <= budget }

Paddings(c, p) ==
    { << >> } \cup
    { Repeat(f, PerPage - Len(p)) : f \in { h \in Hits : Filtered(c, h) } }

\* The total_count of the index: within one page, and within two pages.
TotalCounts == { 2, PerPage + 50 }

(***************************************************************************)
(* executeSearchReplace, lines 25-46: validation, then the empty summary.  *)
(***************************************************************************)
\* process.exit has not been called.
NoExit == -1

\* Mutant: the Map is kept from one search to the next.
FreshMatches_Kept(previous) == previous

\* github-client.ts line 54: const allMatches = new Map()
FreshMatches(previous) == << >>

Validate ==
    /\ pc = "start"
    /\ exitCode = NoExit
    /\ IF validateConfig(config) # << >>
       THEN /\ pc' = "done"
            /\ outcome' = "threw"
            /\ thrown' = Append(thrown,
                   [method |-> "executeSearchReplace", repo |-> "",
                    error |-> [name |-> "Error",
                               message |-> << "Configuration errors: " >>
                                           \o validateConfig(config)]])
       ELSE /\ pc' = "loop"
            /\ UNCHANGED << outcome, thrown >>
    /\ summary' = EmptySummary
    /\ page' = 1
    /\ hasMoreResults' = TRUE
    /\ allMatches' = FreshMatches(allMatches)
    /\ UNCHANGED << env, exitCode, firstRun, data, idx, repoIdx, pr, calls,
                    warnings, sent, faults >>

(***************************************************************************)
(* searchAcrossOrganizations, lines 76-97: one search.code request.  A     *)
(* failed request leaves through the catch of line 185, which rethrows,    *)
(* and executeSearchReplace's catch of line 101 records it.                *)
(***************************************************************************)
\* The environment makes a call fail, or lets a file change under the run.
Fault == faults < MaxFaults /\ faults' = faults + 1

\* Mutant: the search failure is logged and not recorded.
RecordSearchFailure_Dropped(s, err) == s

RecordSearchFailure(s, err) ==
    [s EXCEPT !.errors =
        Append(@, << "Error during search operation: " >> \o err.message)]

\* Mutant: the catch of the search returns what was collected so far, and
\* the run reports it.
SearchFailed_ReturnsPartial(err) ==
    /\ thrown' = thrown
    /\ summary' = [summary EXCEPT !.repositoriesWithMatches = Len(allMatches)]
    /\ pc' = "done"
    /\ outcome' = "returned"

SearchFailed(err) ==
    /\ thrown' = Append(thrown, [method |-> "searchAcrossOrganizations",
                                 repo |-> "", error |-> err])
    /\ summary' = RecordSearchFailure(summary, err)
    /\ pc' = "done"
    /\ outcome' = "returned"

\* Mutant: the loop has no cap on the pages.
LoopGoesOn_Uncapped(more, pg) == more

\* line 76: while (hasMoreResults && page <= 10)
LoopGoesOn(more, pg) == more /\ pg <= MaxPages

\* lines 86-97: the request is answered with resp; an empty page ends the
\* loop, any other is gone through from its first hit.
SearchAnswered(resp) ==
    /\ calls' = Append(calls,
                       [Call("search.code", "", << >>, page, TRUE)
                          EXCEPT !.items = Len(resp.items)])
    /\ IF resp.items = << >>
       THEN /\ hasMoreResults' = FALSE
            /\ UNCHANGED << data, idx, pc >>
       ELSE /\ data' = resp
            /\ idx' = 1
            /\ pc' = "items"
            /\ UNCHANGED hasMoreResults
    /\ UNCHANGED << summary, outcome, thrown >>

SearchCode ==
    /\ pc = "loop"
    /\ LoopGoesOn(hasMoreResults, page)
    /\ \/ /\ Fault
          /\ calls' = Append(calls, Call("search.code", "", << >>, page, FALSE))
          /\ SearchFailed(ServerError)
          /\ UNCHANGED << hasMoreResults, data, idx, sent >>
       \/ \E p \in Prefixes(config, MaxHits - sent) :
          \E padding \in Paddings(config, p) :
             /\ SearchAnswered([items |-> p \o padding, total_count |-> index])
             /\ sent' = sent + Passing(config, p)
             /\ UNCHANGED faults
    /\ UNCHANGED << env, exitCode, firstRun, page, allMatches, repoIdx, pr,
                    warnings >>

(***************************************************************************)
(* Lines 100-113: the hits the filters reject are passed over, with no     *)
(* await, up to the next hit that is fetched or the end of the page.       *)
(***************************************************************************)
NextFetched(c, items, i) ==
    LET S == { j \in i..(Len(items) + 1) :
                 j = Len(items) + 1 \/ ~Filtered(c, items[j]) }
    IN  CHOOSE j \in S : \A k \in S : j <= k

SkipItems ==
    /\ pc = "items"
    /\ idx <= Len(data.items)
    /\ Filtered(config, data.items[idx])
    /\ idx' = NextFetched(config, data.items, idx)
    /\ UNCHANGED << env, exitCode, firstRun, pc, outcome, summary, page,
                    hasMoreResults, data, allMatches, repoIdx, pr, calls,
                    warnings, thrown, sent, faults >>

(***************************************************************************)
(* Lines 115-154 and getFileContent, lines 238-263: fetch one hit.         *)
(***************************************************************************)
\* lines 128-132
matchCount(c, content) ==
    GlobalMatchCount(Atoms(c.searchString), content, 1)

\* lines 134-141
NewFileMatch(c, item, fileContent) ==
    [path |-> item.path, content |-> fileContent.content,
     sha |-> fileContent.sha,
     matchCount |-> matchCount(c, fileContent.content),
     repository |-> item.repository.full_name]

\* lines 143-146
PushMatch(all, fileMatch) ==
    IF \E k \in 1..Len(all) : all[k].repository = fileMatch.repository
    THEN [ k \in 1..Len(all) |->
             IF all[k].repository = fileMatch.repository
             THEN [all[k] EXCEPT !.matches = Append(@, fileMatch)]
             ELSE all[k] ]
    ELSE Append(all, [repository |-> fileMatch.repository,
                      matches |-> << fileMatch >>])

\* Mutant: what the search index reported is trusted.
IsMatch_Always(c, fileContent) == TRUE

\* lines 124-127
IsMatch(c, fileContent) == Includes(fileContent.content, c.searchString)

\* lines 150-154
FetchWarning(item, message) ==
    << "Could not fetch content for ", item.repository.full_name,
       item.path >> \o message

\* What the search does with the answer of getContent for item: the new
\* allMatches and the new warnings.  kind is "error", "notfile" or "file".
AfterFetch(c, item, kind, content, all, warned) ==
    LET fileContent == [content |-> content, sha |-> content]
    IN  CASE kind = "error" ->
               [all |-> all,
                warned |-> Append(warned, FetchWarning(item,
                    << "Failed to get file content: " >>
                    \o ServerError.message))]
          [] kind = "notfile" -> [all |-> all, warned |-> warned]
          [] kind = "file" ->
               IF ~IsMatch(c, fileContent)
               THEN [all |-> all, warned |-> warned]
               ELSE IF RegExpThrows(c.searchString)
               THEN [all |-> all,
                     warned |-> Append(warned, FetchWarning(item,
                         << "Invalid regular expression" >>))]
               ELSE [all |-> PushMatch(all, NewFileMatch(c, item, fileContent)),
                     warned |-> warned]

\* Mutant: a failed fetch ends the loop over the hits of the page.
NextIndex_BreakOnError(kind, i, items) ==
    IF kind = "error" THEN Len(items) + 1 ELSE i + 1

\* The for-of loop of line 100 goes on with the next hit, whatever the
\* fetch of this one gave.
NextIndex(kind, i, items) == i + 1

\* The fetch of item is answered, and lines 124-154 run on the answer.
Fetched(item, kind, content) ==
    LET after == AfterFetch(config, item, kind, content, allMatches, warnings)
    IN  /\ calls' = Append(calls,
               [Call("repos.getContent", item.repository.full_name,
                     item.path, 0, kind # "error")
                  EXCEPT !.got = content])
        /\ allMatches' = after.all
        /\ warnings' = after.warned

GetFileContent ==
    /\ pc = "items"
    /\ idx <= Len(data.items)
    /\ ~Filtered(config, data.items[idx])
    /\ \E kind \in { "error", "notfile", "file" } :
       \E content \in IF kind = "file" THEN Contents ELSE { << >> } :
          /\ Fetched(data.items[idx], kind, content)
          /\ IF kind = "error" THEN Fault ELSE UNCHANGED faults
          /\ idx' = NextIndex(kind, idx, data.items)
    /\ UNCHANGED << env, exitCode, firstRun, pc, outcome, summary, page,
                    hasMoreResults, data, repoIdx, pr, thrown, sent >>

(***************************************************************************)
(* Lines 157-166: the end of a page.                                       *)
(***************************************************************************)
\* Mutant: a full page is followed by another, whatever total_count says.
MorePages_IgnoresTotal(d, pg) == Len(d.items) = PerPage

\* lines 158-160
MorePages(d, pg) ==
    Len(d.items) = PerPage /\ pg < Ceil(d.total_count, PerPage)

\* Mutant: the next page is asked for at once.
AfterPage_NoDelay(more) == "loop"

\* lines 164-166: if (hasMoreResults) await this.delay(1000)
AfterPage(more) == IF more THEN "delay" ELSE "loop"

EndPage ==
    /\ pc = "items"
    /\ idx > Len(data.items)
    /\ hasMoreResults' = MorePages(data, page)
    /\ page' = page + 1
    /\ pc' = AfterPage(MorePages(data, page))
    /\ data' = NoData
    /\ idx' = 0
    /\ UNCHANGED << env, exitCode, firstRun, outcome, summary, allMatches,
                    repoIdx, pr, calls, warnings, thrown, sent, faults >>

\* await this.delay(1000)
Delay ==
    /\ pc = "delay"
    /\ calls' = Append(calls, Call("delay", "", << >>, 0, TRUE))
    /\ pc' = "loop"
    /\ UNCHANGED << env, exitCode, firstRun, outcome, summary, page,
                    hasMoreResults, data, idx, allMatches, repoIdx, pr,
                    warnings, thrown, sent, faults >>

(***************************************************************************)
(* The loop of line 76 ends; lines 169-184 return allMatches, and          *)
(* executeSearchReplace, lines 53-54, takes its size.                      *)
(***************************************************************************)
SearchReturn ==
    /\ pc = "loop"
    /\ ~LoopGoesOn(hasMoreResults, page)
    /\ summary' = [summary EXCEPT !.repositoriesWithMatches = Len(allMatches)]
    /\ repoIdx' = 1
    /\ pc' = "repos"
    /\ UNCHANGED << env, exitCode, firstRun, outcome, page, hasMoreResults,
                    data, idx, allMatches, pr, calls, warnings, thrown, sent,
                    faults >>

(***************************************************************************)
(* executeSearchReplace, lines 57-78: the next repository of the match     *)
(* set; createPullRequest, lines 294-301, unless this is a dry run.        *)
(***************************************************************************)
Timestamps == { "20261104T120000" }

\* Mutant: the dry-run flag is not looked at.
IsDryRun_Ignored(c) == FALSE

\* line 75
IsDryRun(c) == c.dryRun

ProcessRepository ==
    /\ pc = "repos"
    /\ repoIdx <= Len(allMatches)
    /\ summary' = [summary EXCEPT !.totalFilesChanged =
                       @ + Len(allMatches[repoIdx].matches)]
    /\ IF IsDryRun(config)
       THEN /\ repoIdx' = repoIdx + 1
            /\ UNCHANGED << pc, pr >>
       ELSE /\ \E timestamp \in Timestamps :
                 pr' = [NoPR EXCEPT !.branchName =
                            << config.branchPrefix, "-", timestamp >>]
            /\ pc' = "repoinfo"
            /\ UNCHANGED repoIdx
    /\ UNCHANGED << env, exitCode, firstRun, outcome, page, hasMoreResults,
                    data, idx, allMatches, calls, warnings, thrown, sent,
                    faults >>

(***************************************************************************)
(* createPullRequest throws (line 391) and executeSearchReplace, lines     *)
(* 89-94, records the failure and goes on with the next repository.        *)
(***************************************************************************)
RecordPRFailure(s, repo, err) ==
    [s EXCEPT !.failedPRs = @ + 1,
              !.errors = Append(@, << "Failed to create PR for ", repo >>
                                   \o err.message)]

\* Mutant: a failed publish ends the loop over the repositories.
AfterFailure_EndsLoop(i) == Len(allMatches) + 1

\* Mutant: a failed publish is tried again.
AfterFailure_Retries(i) == i

\* The repository the loop of line 57 goes on with after a failed publish.
AfterFailure(i) == i + 1

\* Mutant: the catch throws a new error in place of the one it caught.
Rethrown_Wrapped(err) ==
    [name |-> "Error", message |-> << "Failed to create PR" >>]

\* lines 389-392: the catch logs and throws what it caught.
Rethrown(err) == err

\* Mutant: the failure of a step is caught where it happens and the
\* publish goes on to open the pull request.
PublishFailed_Swallowed(err) ==
    /\ pr' = [pr EXCEPT !.fileIdx = Len(allMatches[repoIdx].matches) + 1]
    /\ pc' = "commit"
    /\ UNCHANGED << thrown, summary, repoIdx >>

\* Mutant: after a failed publish the loop waits for something that never
\* comes.
PublishFailed_Waits(err) ==
    LET repo == allMatches[repoIdx].repository
    IN  /\ thrown' = Append(thrown, [method |-> "createPullRequest",
                                     repo |-> repo, error |-> Rethrown(err)])
        /\ summary' = RecordPRFailure(summary, repo, Rethrown(err))
        /\ repoIdx' = repoIdx
        /\ pr' = NoPR
        /\ pc' = "waiting"

PublishFailed(err) ==
    LET repo == allMatches[repoIdx].repository
    IN  /\ thrown' = Append(thrown, [method |-> "createPullRequest",
                                     repo |-> repo, error |-> Rethrown(err)])
        /\ summary' = RecordPRFailure(summary, repo, Rethrown(err))
        /\ repoIdx' = AfterFailure(repoIdx)
        /\ pr' = NoPR
        /\ pc' = "repos"

(***************************************************************************)
(* createPullRequest returns (lines 380-388) and executeSearchReplace,     *)
(* lines 86-88, records the pull request.                                  *)
(***************************************************************************)
\* Mutant: the pull request is recorded and not counted.
RecordPRSuccess_Uncounted(s, prResult) ==
    [s EXCEPT !.prs = Append(@, prResult)]

RecordPRSuccess(s, prResult) ==
    [s EXCEPT !.prs = Append(@, prResult), !.successfulPRs = @ + 1]

PublishSucceeded(number) ==
    LET entry == allMatches[repoIdx]
        prResult == [repository |-> entry.repository, prNumber |-> number,
                     prUrl |-> << entry.repository, "/pull/", number >>,
                     filesChanged |-> Len(entry.matches),
                     branchName |-> pr.branchName]
    IN  /\ summary' = RecordPRSuccess(summary, prResult)
        /\ repoIdx' = repoIdx + 1
        /\ pr' = NoPR
        /\ pc' = "repos"

(***************************************************************************)
(* Lines 305-310 and getRepositoryInfo, lines 265-288, which returns null  *)
(* when repos.get fails.                                                   *)
(***************************************************************************)
NoRepositoryInfo ==
    [name |-> "Error",
     message |-> << "Could not get repository information" >>]

GetRepositoryInfo ==
    /\ pc = "repoinfo"
    /\ LET repo == allMatches[repoIdx].repository
       IN  \/ /\ Fault
              /\ calls' = Append(calls, Call("repos.get", repo, << >>, 0, FALSE))
              /\ PublishFailed(NoRepositoryInfo)
           \/ /\ UNCHANGED faults
              /\ calls' = Append(calls, Call("repos.get", repo, << >>, 0, TRUE))
              /\ pr' = [pr EXCEPT !.defaultBranch = "main"]
              /\ pc' = "getref"
              /\ UNCHANGED << summary, repoIdx, thrown >>
    /\ UNCHANGED << env, exitCode, firstRun, outcome, page, hasMoreResults,
                    data, idx, allMatches, warnings, sent >>

\* Lines 313-317: git.getRef of the default branch.
GetRef ==
    /\ pc = "getref"
    /\ LET repo == allMatches[repoIdx].repository
       IN  \/ /\ Fault
              /\ calls' = Append(calls, Call("git.getRef", repo, << >>, 0, FALSE))
              /\ PublishFailed(ServerError)
           \/ /\ UNCHANGED faults
              /\ calls' = Append(calls, Call("git.getRef", repo, << >>, 0, TRUE))
              /\ pc' = "createref"
              /\ UNCHANGED << summary, repoIdx, pr, thrown >>
    /\ UNCHANGED << env, exitCode, firstRun, outcome, page, hasMoreResults,
                    data, idx, allMatches, warnings, sent >>

(***************************************************************************)
(* Lines 320-325: git.createRef.  The new branch holds the files of the    *)
(* default branch's tip, which for each matched path is some content: the  *)
(* one read by the search, or another one when the file changed since.     *)
(***************************************************************************)
MatchPaths(matches) == { matches[k].path : k \in 1..Len(matches) }

\* The paths whose blob at the tip is not the one some match of it read.
Stale(matches, tip) ==
    { p \in MatchPaths(matches) :
        \E k \in 1..Len(matches) :
            matches[k].path = p /\ matches[k].sha # tip[p] }

CreateRef ==
    /\ pc = "createref"
    /\ LET entry == allMatches[repoIdx]
       IN  \/ /\ Fault
              /\ calls' = Append(calls, Call("git.createRef", entry.repository,
                                             << >>, 0, FALSE))
              /\ PublishFailed(ServerError)
           \/ /\ calls' = Append(calls, Call("git.createRef", entry.repository,
                                             << >>, 0, TRUE))
              /\ \E tip \in [MatchPaths(entry.matches) -> Contents] :
                    /\ faults + Cardinality(Stale(entry.matches, tip))
                           <= MaxFaults
                    /\ faults' = faults
                                  + Cardinality(Stale(entry.matches, tip))
                    /\ pr' = [pr EXCEPT
                             !.branch = { [path |-> p, content |-> tip[p]] :
                                            p \in MatchPaths(entry.matches) },
                             !.fileIdx = 1]
              /\ pc' = "commit"
              /\ UNCHANGED << summary, repoIdx, thrown >>
    /\ UNCHANGED << env, exitCode, firstRun, outcome, page, hasMoreResults,
                    data, idx, allMatches, warnings, sent >>

(***************************************************************************)
(* Lines 328-343: the next file of the match set is rewritten and          *)
(* committed to the new branch with the sha the search read.  The API      *)
(* accepts the commit only if that sha is the sha of the blob the branch   *)
(* has at the path.                                                        *)
(***************************************************************************)
InvalidRegExp ==
    [name |-> "SyntaxError", message |-> << "Invalid regular expression" >>]

\* lines 329-332
newContent(c, match) ==
    GlobalReplace(Atoms(c.searchString), match.content, 1, c.replacementString)

BlobAt(branch, path) == (CHOOSE f \in branch : f.path = path).content

\* The branch after the commit of match: the file at its path holds the
\* content sent, line 338.
Committed(branch, match) ==
    { IF f.path = match.path
      THEN [f EXCEPT !.content = newContent(config, match)]
      ELSE f : f \in branch }

\* Mutant: the commit sends the sha of the blob the branch has now.
CommitSha_Current(branch, match) == BlobAt(branch, match.path)

\* line 340: sha: match.sha
CommitSha(branch, match) == match.sha

\* The answers createOrUpdateFileContents can give to a commit of match.
CommitAnswers(branch, match) ==
    IF BlobAt(branch, match.path) = CommitSha(branch, match)
    THEN { "ok", "error" }
    ELSE { "conflict", "error" }

\* Mutant: the pull request is opened after the first commit.
AllCommitted_AfterFirst(fileIdx, matches) == fileIdx > 1

\* Mutant: the loop over the matches leaves out every other file.
NextFile_SkipsOne(fileIdx) == fileIdx + 2

\* The for-of loop of line 328 goes on with the next match.
NextFile(fileIdx) == fileIdx + 1

\* The for-of loop of line 328 has gone through every match.
AllCommitted(fileIdx, matches) == fileIdx > Len(matches)

CommitFile ==
    /\ pc = "commit"
    /\ ~AllCommitted(pr.fileIdx, allMatches[repoIdx].matches)
    /\ LET repo == allMatches[repoIdx].repository
           match == allMatches[repoIdx].matches[pr.fileIdx]
       IN  IF RegExpThrows(config.searchString)
           THEN /\ PublishFailed(InvalidRegExp)
                /\ UNCHANGED << calls, faults >>
           ELSE \E answer \in CommitAnswers(pr.branch, match) :
                  /\ calls' = Append(calls,
                         [Call("repos.createOrUpdateFileContents", repo,
                               match.path, 0, answer = "ok")
                            EXCEPT !.sha = CommitSha(pr.branch, match),
                                   !.got = BlobAt(pr.branch, match.path)])
                  /\ IF answer = "error" THEN Fault ELSE UNCHANGED faults
                  /\ IF answer = "ok"
                     THEN /\ pr' = [pr EXCEPT
                                 !.branch = Committed(@, match),
                                 !.fileIdx = NextFile(@)]
                          /\ UNCHANGED << summary, repoIdx, thrown, pc >>
                     ELSE PublishFailed(IF answer = "conflict"
                                        THEN ShaMismatch ELSE ServerError)
    /\ UNCHANGED << env, exitCode, firstRun, outcome, page, hasMoreResults,
                    data, idx, allMatches, warnings, sent >>

(***************************************************************************)
(* Lines 345-361: every file is committed; pulls.create.  With no label    *)
(* configured (line 364) the result is returned at once.                   *)
(***************************************************************************)
PullsCreate ==
    /\ pc = "commit"
    /\ AllCommitted(pr.fileIdx, allMatches[repoIdx].matches)
    /\ LET repo == allMatches[repoIdx].repository
       IN  \/ /\ Fault
              /\ calls' = Append(calls, Call("pulls.create", repo, << >>, 0, FALSE))
              /\ PublishFailed(ServerError)
           \/ /\ UNCHANGED faults
              /\ calls' = Append(calls, Call("pulls.create", repo, << >>, 0, TRUE))
              /\ \E number \in PRNumbers :
                    IF config.prLabels # << >>
                    THEN /\ pr' = [pr EXCEPT !.number = number]
                         /\ pc' = "labels"
                         /\ UNCHANGED << summary, repoIdx >>
                    ELSE PublishSucceeded(number)
              /\ UNCHANGED thrown
    /\ UNCHANGED << env, exitCode, firstRun, outcome, page, hasMoreResults,
                    data, idx, allMatches, warnings, sent >>

(***************************************************************************)
(* Lines 364-388: issues.addLabels; its failure is caught and warned of.   *)
(***************************************************************************)
LabelWarning(repo, number, err) ==
    << "Could not add labels to PR ", number, repo >> \o err.message

\* Mutant: the failure of addLabels fails the publish.
AfterLabelFailure_Fatal(number) == PublishFailed(ServerError)

\* What a failed addLabels does to the run: the call returns all the same.
AfterLabelFailure(number) == PublishSucceeded(number) /\ UNCHANGED thrown

AddLabels ==
    /\ pc = "labels"
    /\ LET repo == allMatches[repoIdx].repository
       IN  \/ /\ UNCHANGED faults
              /\ calls' = Append(calls,
                                 Call("issues.addLabels", repo, << >>, 0, TRUE))
              /\ PublishSucceeded(pr.number)
              /\ UNCHANGED << warnings, thrown >>
           \/ /\ Fault
              /\ calls' = Append(calls,
                                 Call("issues.addLabels", repo, << >>, 0, FALSE))
              /\ warnings' = Append(warnings,
                                    LabelWarning(repo, pr.number, ServerError))
              /\ AfterLabelFailure(pr.number)
    /\ UNCHANGED << env, exitCode, firstRun, outcome, page, hasMoreResults,
                    data, idx, allMatches, sent >>

\* Line 107: return summary.
Finish ==
    /\ pc = "repos"
    /\ repoIdx > Len(allMatches)
    /\ pc' = "done"
    /\ outcome' = "returned"
    /\ UNCHANGED << env, exitCode, firstRun, summary, page, hasMoreResults,
                    data, idx, allMatches, repoIdx, pr, calls, warnings,
                    thrown, sent, faults >>

(***************************************************************************)
(* main, lines 171-177: with no token in the environment the process       *)
(* exits with 1 before executeSearchReplace is called.                     *)
(***************************************************************************)
MainWithoutToken ==
    /\ pc = "start"
    /\ exitCode = NoExit
    /\ config.githubToken = << >>
    /\ exitCode' = 1
    /\ UNCHANGED << env, firstRun, pc, outcome, summary, page, hasMoreResults,
                    data, idx, allMatches, repoIdx, pr, calls, warnings,
                    thrown, sent, faults >>

(***************************************************************************)
(* main, lines 187-201: executeSearchReplace has returned or thrown; the   *)
(* summary is printed and the process exits.                               *)
(***************************************************************************)
\* Mutant: only the failed pull requests are looked at.
hasErrors_FailedOnly(s) == s.failedPRs > 0

\* line 195
hasErrors(s) == Len(s.errors) > 0 \/ s.failedPRs > 0

MainExits ==
    /\ pc = "done"
    /\ exitCode = NoExit
    /\ exitCode' = IF outcome = "threw" THEN 1
                   ELSE IF hasErrors(summary) THEN 1 ELSE 0
    /\ UNCHANGED << env, firstRun, pc, outcome, summary, page, hasMoreResults,
                    data, idx, allMatches, repoIdx, pr, calls, warnings,
                    thrown, sent, faults >>

(***************************************************************************)
(* The specification: one run of executeSearchReplace, under main or not.  *)
(***************************************************************************)
Init ==
    /\ config \in Configs
    /\ pc = "start"
    /\ outcome = "none"
    /\ summary = EmptySummary
    /\ page = 0
    /\ hasMoreResults = FALSE
    /\ data = NoData
    /\ idx = 0
    /\ allMatches = << >>
    /\ repoIdx = 0
    /\ pr = NoPR
    /\ calls = << >>
    /\ warnings = << >>
    /\ thrown = << >>
    /\ sent = 0
    /\ index \in TotalCounts
    /\ faults = 0
    /\ exitCode = NoExit
    /\ upstream = NoUpstream
    /\ firstRun = NoFirstRun

Next ==
    \/ MainWithoutToken
    \/ Validate
    \/ SearchCode
    \/ SkipItems
    \/ GetFileContent
    \/ EndPage
    \/ Delay
    \/ SearchReturn
    \/ ProcessRepository
    \/ GetRepositoryInfo
    \/ GetRef
    \/ CreateRef
    \/ CommitFile
    \/ PullsCreate
    \/ AddLabels
    \/ Finish
    \/ MainExits

Spec == Init /\ [][Next]_vars

(***************************************************************************)
(* One run of executeSearchReplace on its own, in which every step is      *)
(* taken in the end: an API call that was issued returns or fails, and     *)
(* the synchronous code between two awaits runs to the next await.         *)
(***************************************************************************)
NextRun ==
    \/ Validate
    \/ SearchCode
    \/ SkipItems
    \/ GetFileContent
    \/ EndPage
    \/ Delay
    \/ SearchReturn
    \/ ProcessRepository
    \/ GetRepositoryInfo
    \/ GetRef
    \/ CreateRef
    \/ CommitFile
    \/ PullsCreate
    \/ AddLabels
    \/ Finish

\* Every configuration that is not valid, and of the valid ones those with
\* a label to add and archived repositories left out, dry run or not.
LiveConfigs ==
    { c \in Configs :
        validateConfig(c) = << >> => (c.prLabels # << >> /\ ~c.includeArchived) }

InitLive ==
    /\ config \in LiveConfigs
    /\ pc = "start"
    /\ outcome = "none"
    /\ summary = EmptySummary
    /\ page = 0
    /\ hasMoreResults = FALSE
    /\ data = NoData
    /\ idx = 0
    /\ allMatches = << >>
    /\ repoIdx = 0
    /\ pr = NoPR
    /\ calls = << >>
    /\ warnings = << >>
    /\ thrown = << >>
    /\ sent = 0
    /\ index = PerPage + 50
    /\ faults = 0
    /\ exitCode = NoExit
    /\ upstream = NoUpstream
    /\ firstRun = NoFirstRun

SpecLive == InitLive /\ [][NextRun]_vars /\ WF_vars(NextRun)

(***************************************************************************)
(* Dry runs over an index that reports more results than ten pages hold    *)
(* (and over a small one): the search goes as deep as the loop of line 76  *)
(* lets it, and nothing is published.                                      *)
(***************************************************************************)
DeepTotalCounts == { 2, MaxPages * PerPage + 1 }

DeepConfigs ==
    { c \in Configs :
        /\ validateConfig(c) = << >>
        /\ c.dryRun
        /\ ~c.includeArchived
        /\ c.prLabels = << >>
        /\ c.replacementString = << "c" >> }

InitDeep ==
    /\ config \in DeepConfigs
    /\ pc = "start"
    /\ outcome = "none"
    /\ summary = EmptySummary
    /\ page = 0
    /\ hasMoreResults = FALSE
    /\ data = NoData
    /\ idx = 0
    /\ allMatches = << >>
    /\ repoIdx = 0
    /\ pr = NoPR
    /\ calls = << >>
    /\ warnings = << >>
    /\ thrown = << >>
    /\ sent = 0
    /\ index \in DeepTotalCounts
    /\ faults = 0
    /\ exitCode = NoExit
    /\ upstream = NoUpstream
    /\ firstRun = NoFirstRun

NextDeep ==
    \/ Validate
    \/ SearchCode
    \/ SkipItems
    \/ GetFileContent
    \/ EndPage
    \/ Delay
    \/ SearchReturn
    \/ ProcessRepository
    \/ Finish
    \/ MainExits

SpecDeep == InitDeep /\ [][NextDeep]_vars

(***************************************************************************)
(* The counting and the rewriting of one file on their own, over every     *)
(* short search string, replacement and content: one hit is fetched and    *)
(* lines 124-154 run on the answer; then the FileMatch, if there is one,   *)
(* is rewritten as lines 329-332 rewrite it for the commit.                *)
(***************************************************************************)
MaxSearchLen == 3

MaxContentLen == 3

Strings(alphabet, n) == UNION { [1..k -> alphabet] : k \in 0..n }

TextSearchStrings ==
    Strings({ "a", ".", "+", "*" }, MaxSearchLen) \ { << >> }

TextReplacementStrings ==
    { << "c" >>, << "a" >>, << "$", "&" >>, << "$", "$" >> }

TextContents == Strings({ "a", "b", ".", "+", "*" }, MaxContentLen)

TextConfigs ==
    { [githubToken |-> << "t" >>, organizations |-> << "acme" >>,
       searchString |-> s, replacementString |-> r,
       includeArchived |-> FALSE, repositoryTypes |-> << >>,
       excludePatterns |-> << >>, includeExtensions |-> << >>,
       maxReposPerOrg |-> 50,
       branchPrefix |-> "automated-string-replacement",
       prLabels |-> << >>, dryRun |-> FALSE] :
        s \in TextSearchStrings, r \in TextReplacementStrings }

TextHit == [repository |-> RepoSite, path |-> << "c" >>]

InitText ==
    /\ config \in { c \in TextConfigs : validateConfig(c) = << >> }
    /\ pc = "fetch"
    /\ outcome = "none"
    /\ summary = EmptySummary
    /\ page = 1
    /\ hasMoreResults = TRUE
    /\ data = [items |-> << TextHit >>, total_count |-> 1]
    /\ idx = 1
    /\ allMatches = << >>
    /\ repoIdx = 0
    /\ pr = NoPR
    /\ calls = << >>
    /\ warnings = << >>
    /\ thrown = << >>
    /\ sent = 1
    /\ index = 1
    /\ faults = 0
    /\ exitCode = NoExit
    /\ upstream = NoUpstream
    /\ firstRun = NoFirstRun

FetchText ==
    /\ pc = "fetch"
    /\ \E kind \in { "notfile", "file" } :
       \E content \in IF kind = "file" THEN TextContents ELSE { << >> } :
          /\ Fetched(data.items[idx], kind, content)
          /\ idx' = NextIndex(kind, idx, data.items)
    /\ pc' = "rewrite"
    /\ UNCHANGED << env, exitCode, firstRun, outcome, summary, page,
                    hasMoreResults, data, repoIdx, pr, thrown, sent, faults >>

RewriteText ==
    /\ pc = "rewrite"
    /\ allMatches # << >>
    /\ LET match == allMatches[1].matches[1]
       IN  pr' = [pr EXCEPT !.branch =
                     Committed({ [path |-> match.path,
                                  content |-> match.content] }, match)]
    /\ pc' = "rewritten"
    /\ UNCHANGED << env, exitCode, firstRun, outcome, summary, page,
                    hasMoreResults, data, idx, allMatches, repoIdx, calls,
                    warnings, thrown, sent, faults >>

NextText == FetchText \/ RewriteText

SpecText == InitText /\ [][NextText]_vars

(***************************************************************************)
(* Two dry runs in a row against an upstream that does not change: each    *)
(* page of the search holds what it held before, each file holds what it   *)
(* held before, and a call that failed fails again.  The second execution  *)
(* starts when the first has returned, with nothing but the configuration  *)
(* handed over: it runs the same code from line 22 on.                     *)
(***************************************************************************)
UpstreamHits == { h \in Hits : h.path = << "c" >> }

\* What a fixed upstream answers to getContent for one file.
UpstreamAnswers ==
    { [kind |-> "error", content |-> << >>],
      [kind |-> "notfile", content |-> << >>] }
    \cup { [kind |-> "file", content |-> content] : content \in Contents }

\* What a fixed upstream answers to search.code for one page.
UpstreamPages(c) ==
    { [ok |-> FALSE, items |-> << >>] } \cup
    { [ok |-> TRUE, items |-> p \o padding] :
        p \in UNION { [1..k -> UpstreamHits] : k \in 0..MaxHits },
        padding \in { << >> } \cup
            { Repeat(f, PerPage - MaxHits) :
                f \in { h \in UpstreamHits : Filtered(c, h) } } }

\* The upstreams: one page, or a page of at least PerPage items and the
\* page after it; a page past the last one is empty.
Upstreams(c) ==
    { [pages |-> pages, files |-> files] :
        pages \in { << first >> : first \in UpstreamPages(c) } \cup
                  { << first, second >> :
                      first \in { pg \in UpstreamPages(c) :
                                    Len(pg.items) >= PerPage - MaxHits },
                      second \in UpstreamPages(c) },
        files \in [ { << h.repository.full_name, h.path >> :
                        h \in { u \in UpstreamHits : ~Filtered(c, u) } }
                    -> UpstreamAnswers ] }

PageOf(up, n) ==
    IF n <= Len(up.pages) THEN up.pages[n] ELSE [ok |-> TRUE, items |-> << >>]

InitTwice ==
    /\ config \in DeepConfigs
    /\ pc = "start"
    /\ outcome = "none"
    /\ summary = EmptySummary
    /\ page = 0
    /\ hasMoreResults = FALSE
    /\ data = NoData
    /\ idx = 0
    /\ allMatches = << >>
    /\ repoIdx = 0
    /\ pr = NoPR
    /\ calls = << >>
    /\ warnings = << >>
    /\ thrown = << >>
    /\ sent = 0
    /\ index \in TotalCounts
    /\ faults = 0
    /\ exitCode = NoExit
    /\ upstream \in Upstreams(config)
    /\ firstRun = NoFirstRun

\* SearchCode, with the answer the upstream has for the page.
SearchCodeUpstream ==
    /\ pc = "loop"
    /\ LoopGoesOn(hasMoreResults, page)
    /\ LET answer == PageOf(upstream, page)
       IN  IF answer.ok
           THEN SearchAnswered([items |-> answer.items, total_count |-> index])
           ELSE /\ calls' = Append(calls,
                                   Call("search.code", "", << >>, page, FALSE))
                /\ SearchFailed(ServerError)
                /\ UNCHANGED << hasMoreResults, data, idx >>
    /\ UNCHANGED << env, exitCode, firstRun, page, allMatches, repoIdx, pr,
                    warnings, sent, faults >>

\* GetFileContent, with the answer the upstream has for the file.
GetFileContentUpstream ==
    /\ pc = "items"
    /\ idx <= Len(data.items)
    /\ ~Filtered(config, data.items[idx])
    /\ LET item == data.items[idx]
           answer == upstream.files[<< item.repository.full_name, item.path >>]
       IN  /\ Fetched(item, answer.kind, answer.content)
           /\ idx' = NextIndex(answer.kind, idx, data.items)
    /\ UNCHANGED << env, exitCode, firstRun, pc, outcome, summary, page,
                    hasMoreResults, data, repoIdx, pr, thrown, sent, faults >>

\* executeSearchReplace is called a second time with the same config.
RunAgain ==
    /\ pc = "done"
    /\ firstRun = NoFirstRun
    /\ firstRun' = [outcome |-> outcome, summary |-> summary,
                   matches |-> allMatches]
    /\ pc' = "start"
    /\ outcome' = "none"
    /\ UNCHANGED << env, exitCode, summary, page, hasMoreResults, data, idx,
                    allMatches, repoIdx, pr, calls, warnings, thrown, sent,
                    faults >>

NextTwice ==
    \/ Validate
    \/ SearchCodeUpstream
    \/ SkipItems
    \/ GetFileContentUpstream
    \/ EndPage
    \/ Delay
    \/ SearchReturn
    \/ ProcessRepository
    \/ Finish
    \/ RunAgain

SpecTwice == InitTwice /\ [][NextTwice]_vars

(***************************************************************************)
(* The filters on their own, over the repositories and paths a hit can     *)
(* have and the filter options a configuration can have: one page of the   *)
(* search has been received and lines 100-166 go through it.               *)
(***************************************************************************)
RepoOpen ==
    [full_name |-> "acme/open", owner |-> "acme", archived |-> FALSE,
     visibility |-> "", private |-> FALSE]

RepoCore ==
    [full_name |-> "acme/core", owner |-> "acme", archived |-> FALSE,
     visibility |-> "private", private |-> TRUE]

RepoTeam ==
    [full_name |-> "acme/team", owner |-> "acme", archived |-> FALSE,
     visibility |-> "internal", private |-> TRUE]

FilterRepos == { RepoSite, RepoApi, RepoOld, RepoOpen, RepoCore, RepoTeam }

FilterPaths ==
    { << "c" >>, << "c", ".", "t" >>, << "c", ".", "l" >>,
      << "n", "/", "c", ".", "t" >> }

FilterHits ==
    { [repository |-> r, path |-> << "c", ".", "t" >>] : r \in FilterRepos }
    \cup { [repository |-> RepoSite, path |-> p] : p \in FilterPaths }

RepositoryTypeLists ==
    { << >>, << "public" >>, << "private" >>, << "internal" >>,
      << "public", "private", "internal" >> }

FilterConfigs ==
    { [githubToken |-> << "t" >>, organizations |-> << "acme" >>,
       searchString |-> << "a", ".", "b" >>, replacementString |-> << "c" >>,
       includeArchived |-> a, repositoryTypes |-> t,
       excludePatterns |-> f.excludePatterns,
       includeExtensions |-> f.includeExtensions,
       maxReposPerOrg |-> 50,
       branchPrefix |-> "automated-string-replacement",
       prLabels |-> << >>, dryRun |-> TRUE] :
        a \in BOOLEAN, t \in RepositoryTypeLists, f \in Filters }

\* line 61: const fileExtensions = ""; the extension qualifiers the query
\* of line 67 has.
fileExtensions(c) == << >>

EndsWith(path, suffix) ==
    /\ Len(suffix) <= Len(path)
    /\ SubSeq(path, Len(path) - Len(suffix) + 1, Len(path)) = suffix

\* What the search index answers with: hits of the files the query's
\* extension qualifiers allow, any file when it has none.
Answers(extensions, hit) ==
    \/ extensions = << >>
    \/ \E k \in 1..Len(extensions) : EndsWith(hit.path, extensions[k])

InitFilter ==
    /\ config \in FilterConfigs
    /\ pc = "items"
    /\ outcome = "none"
    /\ summary = EmptySummary
    /\ page = 1
    /\ hasMoreResults = TRUE
    /\ \E k \in 1..MaxHits :
       \E items \in [1..k -> { h \in FilterHits :
                                 Answers(fileExtensions(config), h) }] :
          /\ data = [items |-> items, total_count |-> k]
          /\ sent = Passing(config, items)
          /\ index = k
    /\ idx = 1
    /\ allMatches = << >>
    /\ repoIdx = 0
    /\ pr = NoPR
    /\ calls = << [Call("search.code", "", << >>, 1, TRUE)
                      EXCEPT !.items = Len(data.items)] >>
    /\ warnings = << >>
    /\ thrown = << >>
    /\ faults = 0
    /\ exitCode = NoExit
    /\ upstream = NoUpstream
    /\ firstRun = NoFirstRun

NextFilter == SkipItems \/ GetFileContent \/ EndPage

SpecFilter == InitFilter /\ [][NextFilter]_vars

(***************************************************************************)
(* What the properties below read off the histories.                       *)
(***************************************************************************)
PrePullApis ==
    { "repos.get", "git.getRef", "git.createRef",
      "repos.createOrUpdateFileContents" }

PublishApis == PrePullApis \cup { "pulls.create", "issues.addLabels" }

ValidConfig(c) ==
    /\ c.githubToken # << >>
    /\ c.organizations # << >>
    /\ c.searchString # << >>
    /\ c.replacementString # << >>
    /\ c.searchString # c.replacementString

MatchRepos == { allMatches[k].repository : k \in 1..Len(allMatches) }

MatchesOf(repo) ==
    (CHOOSE e \in Range(allMatches) : e.repository = repo).matches

CallsTo(api, repo) ==
    Count(calls, LAMBDA c : c.api = api /\ c.repo = repo)

Succeeded(api, repo) ==
    \E k \in 1..Len(calls) :
        calls[k].api = api /\ calls[k].repo = repo /\ calls[k].ok

Failed(apis, repo) ==
    \E k \in 1..Len(calls) :
        calls[k].api \in apis /\ calls[k].repo = repo /\ ~calls[k].ok

SearchThrew ==
    \E k \in 1..Len(thrown) : thrown[k].method = "searchAcrossOrganizations"

PublishThrew(repo) ==
    \E k \in 1..Len(thrown) :
        thrown[k].method = "createPullRequest" /\ thrown[k].repo = repo

InPrs(repo) ==
    \E k \in 1..Len(summary.prs) : summary.prs[k].repository = repo

ErrorsNaming(repo) ==
    Count(summary.errors,
          LAMBDA e : e[1] = "Failed to create PR for " /\ e[2] = repo)

\* searchAcrossOrganizations has returned the match set.
SearchReturned ==
    \/ pc \in { "repos", "repoinfo", "getref", "createref", "commit",
                "labels" }
    \/ pc = "done" /\ outcome = "returned" /\ ~SearchThrew

\* The loop of executeSearchReplace is through with repository k.
Handled(k) == k < repoIdx

\* The fetches that answered with a file containing the search string.
IsFoundFetch(c) ==
    /\ c.api = "repos.getContent"
    /\ c.ok
    /\ Includes(c.got, config.searchString)
    /\ ~RegExpThrows(config.searchString)

\* A commit sent with a sha that is not the one of the blob on the branch.
IsStaleCommit(c) ==
    c.api = "repos.createOrUpdateFileContents" /\ c.sha # c.got

(***************************************************************************)
(* C1.  Failure isolation: in a run that is not a dry run, every           *)
(* repository the loop is through with had its own publish attempt, a      *)
(* finished run is through with every repository of the match set, and     *)
(* each repository whose createPullRequest failed counts once in           *)
(* failedPRs and has exactly one entry of errors naming it.                *)
(***************************************************************************)
C1_FailureIsolation ==
    ~config.dryRun =>
        /\ \A k \in 1..Len(allMatches) :
              Handled(k) => CallsTo("repos.get", allMatches[k].repository) = 1
        /\ (pc = "done" /\ outcome = "returned" /\ ~SearchThrew)
              => repoIdx = Len(allMatches) + 1
        /\ \A r \in MatchRepos :
              PublishThrew(r) =>
                  /\ ErrorsNaming(r) = 1
                  /\ Count(thrown, LAMBDA t : t.repo = r) = 1
        /\ summary.failedPRs = Cardinality({ r \in MatchRepos : PublishThrew(r) })

C1_Witness ==
    /\ pc = "done"
    /\ \E i, j \in 1..Len(allMatches) :
          /\ i < j
          /\ PublishThrew(allMatches[i].repository)
          /\ InPrs(allMatches[j].repository)

(***************************************************************************)
(* C2, as claimed: executeSearchReplace never throws; every run ends with  *)
(* a summary returned.                                                     *)
(***************************************************************************)
C2_NeverThrows == pc = "done" => outcome = "returned"

ExpectedError(t) ==
    IF t.method = "searchAcrossOrganizations"
    THEN << "Error during search operation: " >> \o t.error.message
    ELSE << "Failed to create PR for ", t.repo >> \o t.error.message

(***************************************************************************)
(* C2, amended: executeSearchReplace throws exactly when the               *)
(* configuration is invalid; with a valid configuration it returns the     *)
(* summary, whose errors hold one entry for each failure of the search     *)
(* and of a createPullRequest, in the order they happened.                 *)
(***************************************************************************)
C2_ThrowsOnlyOnInvalidConfig ==
    /\ pc = "done" =>
          outcome = (IF ValidConfig(config) THEN "returned" ELSE "threw")
    /\ pc # "done" => outcome = "none"
    /\ IF ValidConfig(config)
       THEN summary.errors =
                [ k \in 1..Len(thrown) |-> ExpectedError(thrown[k]) ]
       ELSE summary.errors = << >>

C2_Witness ==
    /\ pc = "done"
    /\ outcome = "returned"
    /\ SearchThrew
    /\ Len(summary.errors) = 1

(***************************************************************************)
(* C3.  A configuration validateConfig finds an error in (in particular    *)
(* one with equal search and replacement strings, an empty token or no     *)
(* organization) aborts the run before any call: no call is ever issued    *)
(* and the run ends by throwing.                                           *)
(***************************************************************************)
C3_InvalidConfigNoCalls ==
    (\/ validateConfig(config) # << >>
     \/ config.searchString = config.replacementString
     \/ config.githubToken = << >>
     \/ config.organizations = << >>)
    => /\ calls = << >>
       /\ pc \in { "start", "done" }
       /\ pc = "done" => outcome = "threw"

C3_Witness ==
    /\ pc = "done"
    /\ outcome = "threw"
    /\ config.searchString = config.replacementString
    /\ config.searchString # << >>
    /\ config.githubToken # << >>
    /\ config.organizations # << >>

(***************************************************************************)
(* C4.  In a dry run no call of the publish sequence is ever issued,       *)
(* successfulPRs and failedPRs stay 0 and prs stays empty; and in every    *)
(* run, dry or not, repositoriesWithMatches is the number of repositories  *)
(* with a fetched file that contains the search string, which depends on   *)
(* the answers of the API alone.                                           *)
(***************************************************************************)
C4_DryRunPublishesNothing ==
    /\ config.dryRun =>
          /\ \A k \in 1..Len(calls) : calls[k].api \notin PublishApis
          /\ summary.successfulPRs = 0
          /\ summary.failedPRs = 0
          /\ summary.prs = << >>
    /\ SearchReturned =>
          summary.repositoriesWithMatches =
              Cardinality({ calls[k].repo : k \in { i \in 1..Len(calls) :
                                                      IsFoundFetch(calls[i]) } })

C4_Witness ==
    /\ config.dryRun
    /\ pc = "done"
    /\ summary.repositoriesWithMatches = 2
    /\ summary.totalFilesChanged = 2

(***************************************************************************)
(* C5.  The calls of one createPullRequest are ordered: a commit comes     *)
(* after the branch was created and after every earlier commit of the      *)
(* repository succeeded, and is of the next file in match order; the pull  *)
(* request is opened after a successful commit of every file; labels are   *)
(* added after the pull request was opened.                                *)
(***************************************************************************)
CommitsBefore(j, repo) ==
    { i \in 1..(j - 1) :
        calls[i].api = "repos.createOrUpdateFileContents"
        /\ calls[i].repo = repo }

OkBefore(j, api, repo) ==
    \E i \in 1..(j - 1) :
        calls[i].api = api /\ calls[i].repo = repo /\ calls[i].ok

C5_PublishCallsOrdered ==
    \A j \in 1..Len(calls) :
        LET c == calls[j]
            earlier == CommitsBefore(j, c.repo)
        IN  /\ c.api = "repos.createOrUpdateFileContents" =>
                  /\ OkBefore(j, "git.createRef", c.repo)
                  /\ \A i \in earlier : calls[i].ok
                  /\ Cardinality(earlier) < Len(MatchesOf(c.repo))
                  /\ c.path = MatchesOf(c.repo)[Cardinality(earlier) + 1].path
            /\ c.api = "pulls.create" =>
                  /\ \A i \in earlier : calls[i].ok
                  /\ Cardinality(earlier) = Len(MatchesOf(c.repo))
            /\ c.api = "issues.addLabels" =>
                  OkBefore(j, "pulls.create", c.repo)

C5_Witness ==
    \E r \in MatchRepos :
        /\ Len(MatchesOf(r)) = 2
        /\ CallsTo("issues.addLabels", r) = 1

(***************************************************************************)
(* C6.  A repository with a failed call before the pull request is opened  *)
(* (repository info, ref lookup, branch creation, a commit) has no         *)
(* pulls.create and no addLabels call and no entry in prs, and its         *)
(* createPullRequest failed; failedPRs counts the repositories whose       *)
(* createPullRequest failed and successfulPRs those with an entry in prs.  *)
(***************************************************************************)
C6_NoPullRequestAfterFailure ==
    /\ \A r \in MatchRepos :
          Failed(PrePullApis, r) =>
              /\ CallsTo("pulls.create", r) = 0
              /\ CallsTo("issues.addLabels", r) = 0
              /\ ~InPrs(r)
              /\ PublishThrew(r)
    /\ summary.failedPRs = Cardinality({ r \in MatchRepos : PublishThrew(r) })
    /\ summary.successfulPRs = Cardinality({ r \in MatchRepos : InPrs(r) })
    /\ \A r \in MatchRepos : ~(InPrs(r) /\ PublishThrew(r))

C6_Witness ==
    /\ pc = "done"
    /\ \E r \in MatchRepos :
          /\ Succeeded("repos.createOrUpdateFileContents", r)
          /\ Failed({ "repos.createOrUpdateFileContents" }, r)
          /\ summary.failedPRs = 1

(***************************************************************************)
(* C7.  A repository whose addLabels call failed has its entry in prs,     *)
(* its createPullRequest did not fail, no entry of errors names it, and    *)
(* the failure added nothing to failedPRs or errors: both count the        *)
(* failed createPullRequest and search calls only.                         *)
(***************************************************************************)
C7_LabelFailureNotFatal ==
    /\ \A r \in MatchRepos :
          Failed({ "issues.addLabels" }, r) =>
              /\ InPrs(r)
              /\ ~PublishThrew(r)
              /\ ErrorsNaming(r) = 0
    /\ summary.successfulPRs = Len(summary.prs)
    /\ summary.failedPRs =
          Count(thrown, LAMBDA t : t.method = "createPullRequest")
    /\ Len(summary.errors) =
          Count(thrown, LAMBDA t : t.method # "executeSearchReplace")

C7_Witness ==
    /\ pc = "done"
    /\ \E r \in MatchRepos :
          /\ Failed({ "issues.addLabels" }, r)
          /\ InPrs(r)
          /\ summary.failedPRs = 0
          /\ summary.errors = << >>

C9_SearchFailureEndsRun ==
    (\E k \in 1..Len(calls) : calls[k].api = "search.code" /\ ~calls[k].ok)
    => /\ SearchThrew
       /\ ~SearchReturned
       /\ pc = "done"
       /\ outcome = "returned"
       /\ Len(summary.errors) = 1
       /\ summary.repositoriesWithMatches = 0
       /\ \A k \in 1..Len(calls) : calls[k].api \notin PublishApis

C9_Witness ==
    /\ pc = "done"
    /\ allMatches # << >>
    /\ \E k \in 1..Len(calls) :
          calls[k].api = "search.code" /\ ~calls[k].ok /\ calls[k].page = 2

(***************************************************************************)
(* C10.  A failed fetch of a hit does not end the search: only a failed    *)
(* search.code request makes the search throw; when the search returns,    *)
(* every hit the filters let through, of every page, was fetched; the      *)
(* match set holds one FileMatch for every fetch that answered with a      *)
(* file containing the search string, whatever failed in between; and      *)
(* each failed fetch is warned of.                                         *)
(***************************************************************************)
C10_FetchFailureSkipsHit ==
    /\ SearchThrew => Failed({ "search.code" }, "")
    /\ SearchReturned =>
          Count(calls, LAMBDA c : c.api = "repos.getContent") = sent
    /\ Count(calls, IsFoundFetch)
          = Cardinality({ << k, i >> \in (1..Len(allMatches)) \X (1..MaxHits + 1) :
                             i <= Len(allMatches[k].matches) })
    /\ Count(calls, LAMBDA c : c.api = "repos.getContent" /\ ~c.ok)
          = Count(warnings, LAMBDA w : w[4] = "Failed to get file content: ")

C10_Witness ==
    /\ SearchReturned
    /\ allMatches # << >>
    /\ \E i, j, k \in 1..Len(calls) :
          /\ i < j /\ j < k
          /\ calls[i].api = "repos.getContent" /\ ~calls[i].ok
          /\ calls[j].api = "search.code"
          /\ IsFoundFetch(calls[k])

\* The createOrUpdateFileContents calls for repo, in the order issued.
CommitsOf(repo) ==
    SelectSeq(calls, LAMBDA c :
        c.api = "repos.createOrUpdateFileContents" /\ c.repo = repo)

PathsOf(matches) == [ k \in 1..Len(matches) |-> matches[k].path ]

(***************************************************************************)
(* C11.  For every repository with an entry in prs, the commits issued     *)
(* for it are one per FileMatch of its match set, on that FileMatch's      *)
(* path and in match order, every one accepted; and the filesChanged of    *)
(* the entry is the number of its FileMatch entries.                       *)
(***************************************************************************)
C11_CommitsExactlyTheMatchSet ==
    \A k \in 1..Len(summary.prs) :
        LET r == summary.prs[k].repository
            commits == CommitsOf(r)
        IN  /\ r \in MatchRepos
            /\ [ i \in 1..Len(commits) |-> commits[i].path ]
                   = PathsOf(MatchesOf(r))
            /\ \A i \in 1..Len(commits) : commits[i].ok
            /\ summary.prs[k].filesChanged = Len(MatchesOf(r))

C11_Witness ==
    /\ pc = "done"
    /\ \E k \in 1..Len(summary.prs) :
          /\ summary.prs[k].filesChanged = 2
          /\ Len(CommitsOf(summary.prs[k].repository)) = 2
          /\ CommitsOf(summary.prs[k].repository)[1].path
                # CommitsOf(summary.prs[k].repository)[2].path

\* Every FileMatch of the match set.
FileMatches ==
    UNION { Range(allMatches[k].matches) : k \in 1..Len(allMatches) }

\* How many FileMatch entries the match set has for this file and content.
MatchesFor(repo, path, content) ==
    Cardinality({ << k, i >> \in (1..Len(allMatches)) \X (1..Len(calls)) :
                    /\ i <= Len(allMatches[k].matches)
                    /\ allMatches[k].repository = repo
                    /\ allMatches[k].matches[i].path = path
                    /\ allMatches[k].matches[i].content = content })

(***************************************************************************)
(* C12.  Every FileMatch of the match set holds a content that contains    *)
(* searchString as a literal substring and that a fetch of its path        *)
(* answered with; and the match set has exactly one FileMatch for every    *)
(* fetch that answered with a file containing it, so a fetch that          *)
(* answered with another content, or with a directory or another object    *)
(* that is not a file, adds none.                                          *)
(***************************************************************************)
C12_OnlyFetchedContentWithTheString ==
    /\ \A fm \in FileMatches :
          /\ Includes(fm.content, config.searchString)
          /\ \E j \in 1..Len(calls) :
                /\ calls[j].api = "repos.getContent" /\ calls[j].ok
                /\ calls[j].repo = fm.repository
                /\ calls[j].path = fm.path
                /\ calls[j].got = fm.content
    /\ \A j \in 1..Len(calls) :
          calls[j].api = "repos.getContent" =>
              MatchesFor(calls[j].repo, calls[j].path, calls[j].got)
                  = Count(calls, LAMBDA c :
                        /\ IsFoundFetch(c)
                        /\ c.repo = calls[j].repo
                        /\ c.path = calls[j].path
                        /\ c.got = calls[j].got)

C12_Witness ==
    /\ SearchReturned
    /\ Cardinality(FileMatches) = 1
    /\ \E j \in 1..Len(calls) :
          /\ calls[j].api = "repos.getContent" /\ calls[j].ok
          /\ calls[j].got # << >>
          /\ ~Includes(calls[j].got, config.searchString)

\* The occurrences of the literal sub in s from pos on, counted from the
\* left without overlap.
RECURSIVE LiteralCount(_, _, _)
LiteralCount(s, sub, pos) ==
    IF pos + Len(sub) - 1 > Len(s) THEN 0
    ELSE IF OccursAt(s, sub, pos)
         THEN 1 + LiteralCount(s, sub, pos + Len(sub))
         ELSE LiteralCount(s, sub, pos + 1)

\* s from pos on with every such occurrence replaced by the literal repl.
RECURSIVE LiteralReplace(_, _, _, _)
LiteralReplace(s, sub, repl, pos) ==
    IF pos > Len(s) THEN << >>
    ELSE IF OccursAt(s, sub, pos)
         THEN repl \o LiteralReplace(s, sub, repl, pos + Len(sub))
         ELSE << s[pos] >> \o LiteralReplace(s, sub, repl, pos + 1)

(***************************************************************************)
(* C13, as claimed: the matchCount of every FileMatch is the number of     *)
(* literal occurrences, without overlap, of searchString in its content.   *)
(***************************************************************************)
C13_LiteralMatchCount ==
    \A fm \in FileMatches :
        fm.matchCount = LiteralCount(fm.content, config.searchString, 1)

(***************************************************************************)
(* C14, as claimed: the content committed for a FileMatch is its content   *)
(* with every literal occurrence of searchString replaced by               *)
(* replacementString and every other character unchanged.                  *)
(***************************************************************************)
C14_LiteralReplacement ==
    pc = "rewritten" =>
        \A f \in pr.branch :
            f.content =
                LiteralReplace(allMatches[1].matches[1].content,
                               config.searchString, config.replacementString, 1)

(***************************************************************************)
(* C15, as claimed: every FileMatch of the match set has matchCount >= 1.  *)
(***************************************************************************)
C15_MatchCountPositive == \A fm \in FileMatches : fm.matchCount >= 1

\* The search.code requests, in the order issued.
SearchCalls == SelectSeq(calls, LAMBDA c : c.api = "search.code")

(***************************************************************************)
(* C16.  One search issues at most 10 search.code requests; the k-th asks  *)
(* for page k, so the pages asked for are within 1..10, and every request  *)
(* asks for 100 results per page, whatever total_count the API reports.    *)
(***************************************************************************)
C16_AtMostTenPages ==
    /\ Len(SearchCalls) <= 10
    /\ \A k \in 1..Len(SearchCalls) :
          /\ SearchCalls[k].page = k
          /\ SearchCalls[k].page \in 1..10
          /\ SearchCalls[k].per_page = 100

C16_Witness ==
    /\ SearchReturned
    /\ index > 1000
    /\ Len(SearchCalls) = 10
    /\ \A k \in 1..10 : SearchCalls[k].ok

\* The search stopped at the cap while the API reported more results.
Truncated ==
    /\ SearchReturned
    /\ Len(SearchCalls) = 10
    /\ hasMoreResults
    /\ index > 1000

\* Something other than a failed fetch or a failed labelling was warned of
\* or recorded in the summary.
TruncationReported ==
    \/ \E k \in 1..Len(warnings) :
          warnings[k][1] \notin { "Could not fetch content for ",
                                  "Could not add labels to PR " }
    \/ summary.errors # << >>

(***************************************************************************)
(* C17, as claimed: when the search stops at the 10-page cap while the     *)
(* API reports more results, the truncation is reported to the caller as   *)
(* a warning.                                                              *)
(***************************************************************************)
C17_TruncationReported == Truncated => TruncationReported

(***************************************************************************)
(* C18.  Every search.code request for a page after the first comes right  *)
(* after a delay, so no two requests follow each other with no delay in    *)
(* between; and when the delay is about to start, every hit the filters    *)
(* let through of the pages received so far has been fetched.              *)
(***************************************************************************)
C18_DelayBeforeEveryLaterPage ==
    /\ \A j \in 1..Len(calls) :
          (calls[j].api = "search.code" /\ calls[j].page > 1) =>
              j > 1 /\ calls[j - 1].api = "delay"
    /\ \A i, j \in 1..Len(calls) :
          (i < j /\ calls[i].api = "search.code" /\ calls[j].api = "search.code")
              => \E d \in (i + 1)..(j - 1) : calls[d].api = "delay"
    /\ pc = "delay" =>
          /\ calls[Len(calls)].api # "delay"
          /\ Count(calls, LAMBDA c : c.api = "repos.getContent") = sent

C18_Witness ==
    \E i, g, d, j \in 1..Len(calls) :
        /\ i < g /\ g < d /\ j = d + 1
        /\ calls[i].api = "search.code" /\ calls[i].page = 2
        /\ calls[g].api = "repos.getContent"
        /\ calls[d].api = "delay"
        /\ calls[j].api = "search.code" /\ calls[j].page = 3

(***************************************************************************)
(* C19.  main exits with 0 only after executeSearchReplace returned a      *)
(* summary with no errors and failedPRs = 0, and with 1 only when the      *)
(* token is missing, executeSearchReplace threw (the configuration is      *)
(* invalid) or the summary has an error or a failed PR; a finished run     *)
(* exits with one of the two, and once the process has exited with a code  *)
(* it is that code for good.                                               *)
(***************************************************************************)
C19_ExitStatus ==
    /\ exitCode \in { NoExit, 0, 1 }
    /\ exitCode = 0 =>
          /\ pc = "done" /\ outcome = "returned"
          /\ summary.errors = << >>
          /\ summary.failedPRs = 0
          /\ ValidConfig(config)
    /\ exitCode = 1 =>
          \/ config.githubToken = << >> /\ pc = "start"
          \/ pc = "done" /\ outcome = "threw" /\ ~ValidConfig(config)
          \/ /\ pc = "done" /\ outcome = "returned"
             /\ summary.errors # << >> \/ summary.failedPRs > 0
    /\ (pc = "done" /\ exitCode = NoExit) => ENABLED MainExits
    /\ (pc = "start" /\ config.githubToken = << >> /\ exitCode = NoExit)
          => ENABLED MainWithoutToken

\* A clean run with no match at all exits with 0.
C19_Witness ==
    /\ exitCode = 0
    /\ allMatches = << >>
    /\ summary.repositoriesWithMatches = 0
    /\ \E k \in 1..Len(calls) : calls[k].api = "search.code" /\ calls[k].ok

\* The positions in calls of the publish calls for repo.
PublishCallsOf(repo) ==
    { j \in 1..Len(calls) :
        calls[j].api \in PublishApis /\ calls[j].repo = repo }

(***************************************************************************)
(* C20.  For every repository of the match set there is at most one        *)
(* publish attempt (one repos.get, one git.getRef, one git.createRef, one  *)
(* commit per FileMatch) and at most one pulls.create and one entry in     *)
(* prs; a failed call of the publish sequence other than addLabels is the  *)
(* last publish call for its repository, a failed addLabels is, too, and   *)
(* a failed publish is recorded once.                                      *)
(***************************************************************************)
C20_NoRetry ==
    \A r \in MatchRepos :
        /\ CallsTo("repos.get", r) <= 1
        /\ CallsTo("git.getRef", r) <= 1
        /\ CallsTo("git.createRef", r) <= 1
        /\ CallsTo("repos.createOrUpdateFileContents", r)
              <= Len(MatchesOf(r))
        /\ CallsTo("pulls.create", r) <= 1
        /\ CallsTo("issues.addLabels", r) <= 1
        /\ Count(summary.prs, LAMBDA p : p.repository = r) <= 1
        /\ Count(thrown, LAMBDA t : t.repo = r) <= 1
        /\ ErrorsNaming(r) <= 1
        /\ \A j \in PublishCallsOf(r) :
              ~calls[j].ok => \A i \in PublishCallsOf(r) : i <= j

C20_Witness ==
    /\ pc = "done"
    /\ \E r \in MatchRepos :
          /\ \E j \in PublishCallsOf(r) : IsStaleCommit(calls[j])
          /\ PublishThrew(r)
    /\ \E r \in MatchRepos : InPrs(r)

(***************************************************************************)
(* C21.  Dry-run idempotence: when a second dry run with the same          *)
(* configuration, against an upstream that answers every page and every    *)
(* file as it did before, has finished, it has returned the same           *)
(* ExecutionSummary and the same match set (the same repositories in the   *)
(* same order, each with the same files, contents and match counts) as     *)
(* the first.                                                              *)
(***************************************************************************)
C21_DryRunIdempotent ==
    (firstRun # NoFirstRun /\ pc = "done") =>
        /\ outcome = firstRun.outcome
        /\ summary = firstRun.summary
        /\ allMatches = firstRun.matches

C21_Witness ==
    /\ firstRun # NoFirstRun
    /\ pc = "done"
    /\ config.dryRun
    /\ summary.repositoriesWithMatches = 1
    /\ Len(allMatches[1].matches) = 2
    /\ warnings # << >>
    /\ Len(SearchCalls) = 4

\* const [owner, repo] = repoFullName.split("/")
OwnerOf(repoFullName) ==
    (CHOOSE h \in Hits : h.repository.full_name = repoFullName).repository.owner

\* The repositories of org the loop of executeSearchReplace has taken up:
\* reported in a dry run, or handed to createPullRequest.
ProcessedOf(org) ==
    { k \in 1..Len(allMatches) :
        /\ OwnerOf(allMatches[k].repository) = org
        /\ \/ Handled(k)
           \/ k = repoIdx /\ pc \in { "repoinfo", "getref", "createref",
                                      "commit", "labels" } }

(***************************************************************************)
(* C22, as claimed: for every organization of the configuration, the       *)
(* number of its repositories processed in the run (published, or          *)
(* reported in a dry run) is at most maxReposPerOrg.                       *)
(***************************************************************************)
C22_MaxReposPerOrg ==
    \A org \in Range(config.organizations) :
        Cardinality(ProcessedOf(org)) <= config.maxReposPerOrg

(***************************************************************************)
(* C23, as claimed: when includeExtensions is not empty, the path of       *)
(* every FileMatch of the match set ends in one of its extensions.         *)
(***************************************************************************)
C23_OnlyIncludedExtensions ==
    config.includeExtensions # << >> =>
        \A fm \in FileMatches :
            \E k \in 1..Len(config.includeExtensions) :
                EndsWith(fm.path, config.includeExtensions[k])

\* The hits of the page the for-of loop of line 100 is through with.
Examined == { data.items[j] : j \in 1..(idx - 1) }

FetchesOf(hit) ==
    Count(calls, LAMBDA c : /\ c.api = "repos.getContent"
                            /\ c.repo = hit.repository.full_name
                            /\ c.path = hit.path)

(***************************************************************************)
(* C24.  A hit whose repository shouldProcessRepository rejects, or whose  *)
(* path shouldExcludePath rejects, is passed over before anything is       *)
(* fetched: no getContent call is ever issued for it and the match set     *)
(* never holds a FileMatch of it; and every other hit the loop is through  *)
(* with was fetched.                                                       *)
(***************************************************************************)
C24_FiltersBeforeFetch ==
    pc = "items" =>
        /\ \A hit \in Range(data.items) :
              (\/ ~shouldProcessRepository(config, hit.repository)
               \/ shouldExcludePath(config, hit.path))
              => /\ FetchesOf(hit) = 0
                 /\ \A fm \in FileMatches :
                       ~(/\ fm.repository = hit.repository.full_name
                         /\ fm.path = hit.path)
        /\ \A hit \in Examined :
              (/\ shouldProcessRepository(config, hit.repository)
               /\ ~shouldExcludePath(config, hit.path))
              => FetchesOf(hit) >= 1

C24_Witness ==
    /\ pc = "items"
    /\ idx = 3
    /\ ~shouldProcessRepository(config, data.items[1].repository)
    /\ ~shouldExcludePath(config, data.items[1].path)
    /\ FetchesOf(data.items[1]) = 0
    /\ FetchesOf(data.items[2]) = 1
    /\ allMatches # << >>

\* The visibility of a repository: its visibility field, and from the
\* private flag when the field is absent.
VisibilityOf(repo) ==
    IF repo.visibility # "" THEN repo.visibility
    ELSE IF repo.private THEN "private" ELSE "public"

(***************************************************************************)
(* C25, as claimed: with repositoryTypes not empty, a repository that is   *)
(* not rejected as archived passes shouldProcessRepository exactly when    *)
(* its visibility is one of repositoryTypes; so a hit of it the loop is    *)
(* through with, on a path that is not excluded, was fetched exactly when  *)
(* its visibility is one of repositoryTypes.                               *)
(***************************************************************************)
C25_VisibilityFilter ==
    (pc = "items" /\ config.repositoryTypes # << >>) =>
        \A hit \in Examined :
            ~(~config.includeArchived /\ hit.repository.archived) =>
                LET allowed == VisibilityOf(hit.repository)
                                   \in Range(config.repositoryTypes)
                IN  /\ shouldProcessRepository(config, hit.repository)
                          <=> allowed
                    /\ ~shouldExcludePath(config, hit.path) =>
                          (FetchesOf(hit) >= 1 <=> allowed)

\* The FileMatch the n-th commit issued for repo is a commit of.
MatchOfCommit(repo, n) == MatchesOf(repo)[n]

(***************************************************************************)
(* C26.  Every commit carries the sha its FileMatch got at search time,    *)
(* the sha of a content a fetch of that path answered with; a commit is    *)
(* accepted only if the blob the new branch has at the path is the one     *)
(* with that sha, so the content a commit replaces is always the content   *)
(* the search read, whatever changed upstream in between.                  *)
(***************************************************************************)
C26_CommitCarriesSearchTimeSha ==
    \A r \in MatchRepos :
        \A n \in 1..Len(CommitsOf(r)) :
            LET commit == CommitsOf(r)[n]
                fm == MatchOfCommit(r, n)
            IN  /\ n <= Len(MatchesOf(r))
                /\ commit.path = fm.path
                /\ commit.sha = fm.sha
                /\ \E j \in 1..Len(calls) :
                      /\ calls[j].api = "repos.getContent" /\ calls[j].ok
                      /\ calls[j].repo = r /\ calls[j].path = fm.path
                      /\ calls[j].got = fm.content
                /\ commit.ok => commit.got = fm.content

C26_Witness ==
    /\ pc = "done"
    /\ \E r \in MatchRepos :
          /\ Len(CommitsOf(r)) = 2
          /\ CommitsOf(r)[1].ok
          /\ CommitsOf(r)[1].got = CommitsOf(r)[1].sha
          /\ ~CommitsOf(r)[2].ok
          /\ CommitsOf(r)[2].got # CommitsOf(r)[2].sha
          /\ CommitsOf(r)[2].path # CommitsOf(r)[1].path

(***************************************************************************)
(* C27.  In every state successfulPRs is the length of prs and failedPRs   *)
(* is at most the length of errors; and when a run that is not a dry run   *)
(* and whose search returned has finished, successfulPRs + failedPRs is    *)
(* repositoriesWithMatches, which is the number of entries of the match    *)
(* set.                                                                    *)
(***************************************************************************)
C27_CountersConsistent ==
    /\ summary.successfulPRs = Len(summary.prs)
    /\ summary.failedPRs <= Len(summary.errors)
    /\ (pc = "done" /\ outcome = "returned" /\ ~SearchThrew /\ ~config.dryRun)
          => /\ summary.successfulPRs + summary.failedPRs
                    = summary.repositoriesWithMatches
             /\ summary.repositoriesWithMatches = Len(allMatches)

C27_Witness ==
    /\ pc = "done"
    /\ ~config.dryRun
    /\ summary.successfulPRs = 1
    /\ summary.failedPRs = 1
    /\ summary.repositoriesWithMatches = 2
    /\ Len(summary.errors) = 1

\* createPullRequest for repo has returned or thrown.
PublishFinished(repo) == InPrs(repo) \/ PublishThrew(repo)

\* The branch createPullRequest created in repo is still there with no
\* pull request: the program has no call that deletes a ref.
OrphanBranch(repo) ==
    /\ Succeeded("git.createRef", repo)
    /\ ~Succeeded("pulls.create", repo)

(***************************************************************************)
(* C28, as claimed: once createPullRequest for a repository has returned   *)
(* or failed, the branch it created there, if it created one, is the head  *)
(* of a pull request it opened.                                            *)
(***************************************************************************)
C28_NoOrphanBranch ==
    \A r \in MatchRepos : PublishFinished(r) => ~OrphanBranch(r)

(***************************************************************************)
(* C29, as claimed: within one repository's entry of the match set no two  *)
(* FileMatch records have the same path, so no publish sends two commits   *)
(* for one path with the same sha.                                         *)
(***************************************************************************)
C29_NoDuplicatePaths ==
    /\ \A k \in 1..Len(allMatches) :
          \A i, j \in 1..Len(allMatches[k].matches) :
              i # j => allMatches[k].matches[i].path
                           # allMatches[k].matches[j].path
    /\ \A r \in MatchRepos :
          \A i, j \in 1..Len(CommitsOf(r)) :
              i # j => ~(/\ CommitsOf(r)[i].path = CommitsOf(r)[j].path
                         /\ CommitsOf(r)[i].sha = CommitsOf(r)[j].sha)

\* The hits of the page being gone through that the loop has yet to reach
\* and the filters let through.
ToFetch ==
    IF pc = "items"
    THEN Passing(config, SubSeq(data.items, idx, Len(data.items)))
    ELSE 0

(***************************************************************************)
(* C30.  The k-th search.code request asks for page k; every hit received  *)
(* is gone through once: the loop stands in the page it received last,     *)
(* and the hits the filters let through that it has passed are the hits    *)
(* fetched, one fetch each; and a request is issued only if every page     *)
(* before it was answered, held 100 items (so it was neither empty nor     *)
(* short) and had a number below ceil(total_count / 100).                  *)
(***************************************************************************)
C30_PageTraversal ==
    /\ \A k \in 1..Len(SearchCalls) :
          /\ SearchCalls[k].page = k
          /\ \A j \in 1..(k - 1) :
                /\ SearchCalls[j].ok
                /\ SearchCalls[j].items = 100
                /\ j < Ceil(index, 100)
    /\ Count(calls, LAMBDA c : c.api = "repos.getContent") + ToFetch = sent
    /\ pc = "items" =>
          /\ idx \in 1..(Len(data.items) + 1)
          /\ calls # << >>
          /\ SearchCalls[Len(SearchCalls)].items = Len(data.items)
          /\ SearchCalls[Len(SearchCalls)].page = page
    /\ pc = "delay" => hasMoreResults
    /\ (pc = "loop" /\ Len(SearchCalls) > 0) =>
          (hasMoreResults <=>
              /\ SearchCalls[Len(SearchCalls)].ok
              /\ SearchCalls[Len(SearchCalls)].items = 100
              /\ Len(SearchCalls) < Ceil(index, 100))

C30_Witness ==
    /\ SearchReturned
    /\ Len(SearchCalls) = 2
    /\ SearchCalls[1].items = 100
    /\ SearchCalls[2].items = 100
    /\ SearchCalls[2].ok
    /\ ~hasMoreResults
    /\ Len(allMatches) = 2

\* The sum of filesChanged over a sequence of pull request results.
RECURSIVE SumFilesChanged(_)
SumFilesChanged(prs) ==
    IF prs = << >> THEN 0
    ELSE Head(prs).filesChanged + SumFilesChanged(Tail(prs))

(***************************************************************************)
(* C31, as claimed: when a run that is not a dry run has finished,         *)
(* totalFilesChanged is the sum of filesChanged over the pull requests of  *)
(* prs: the files of a repository whose publish failed are not counted.    *)
(***************************************************************************)
C31_TotalFilesChangedIsSumOverPrs ==
    (pc = "done" /\ outcome = "returned" /\ ~config.dryRun) =>
        summary.totalFilesChanged = SumFilesChanged(summary.prs)

(***************************************************************************)
(* C32, as claimed: when the run has finished, totalRepositories, the      *)
(* number of repositories scanned, is at least repositoriesWithMatches.    *)
(***************************************************************************)
C32_ScannedAtLeastMatched ==
    (pc = "done" /\ outcome = "returned") =>
        summary.totalRepositories >= summary.repositoriesWithMatches

(***************************************************************************)
(* C33.  Termination: when every call that is issued returns or fails,     *)
(* every run of executeSearchReplace finishes: it returns its summary or   *)
(* throws the configuration error, whatever the pages of the search hold   *)
(* and whichever calls fail.                                               *)
(***************************************************************************)
C33_Terminates == <>(pc = "done" /\ outcome \in { "returned", "threw" })

C33_Witness ==
    /\ pc = "done"
    /\ outcome = "returned"
    /\ faults = MaxFaults
    /\ Len(SearchCalls) = 2
    /\ Len(allMatches) = 2
    /\ repoIdx = 3
    /\ summary.failedPRs = 1

====
